---- MODULE Spec2Model ----
(***************************************************************************)
(* The YouTube component of react-youtube (packages/react-youtube/src/     *)
(* YouTube.tsx) as a state machine: one adapter instance, the props React  *)
(* hands it, the youtube-player handles it creates, the promises of the    *)
(* player API that are still pending, and the calls it issues.             *)
(*                                                                         *)
(* Encoding of JavaScript values.  Every scalar is a string: a number n is *)
(* its decimal text ("640"), undefined is Undef, null is Null.  An object  *)
(* is a record with all the keys the model follows; a key the object does  *)
(* not have holds Absent, so that record equality is deep equality with    *)
(* key presence (fast-deep-equal), and `k in obj` is obj.k # Absent.       *)
(***************************************************************************)
EXTENDS Integers, Sequences, FiniteSets, TLC

VARIABLES
  phase,          \* "constructed", "mounted", "failed" (a lifecycle method threw), "unmounted"
  hasDocument,    \* typeof document !== 'undefined'
  container,      \* this.container is an element (TRUE) or null (FALSE)
  supplied,       \* the configuration of the caller's last render
  props,          \* this.props: supplied, with the defaults resolved
  prevProps,      \* <<>> or <<p>>: the argument of the last componentDidUpdate
  internalPlayer, \* this.internalPlayer: 0 for null, else an index into players
  players,        \* the handles youTubePlayer() has returned, in creation order
  pending,        \* pending promises of the player API, with their continuation
  calls,          \* the player API calls the last handler issued, in order
  rules,          \* the methods the last componentDidUpdate invoked, in order
  factory,        \* the youTubePlayer() invocation of the last handler, if any
  lastEvent,      \* the player event the last handler received, if it was one
  callbacks,      \* the props callbacks the last handler invoked, in order
  handlers        \* the functions those props held when they were invoked

vars == <<phase, hasDocument, container, supplied, props, prevProps, internalPlayer,
          players, pending, calls, rules, factory, lastEvent, callbacks, handlers>>

-----------------------------------------------------------------------------
(* Bounds *)

\* youTubePlayer() is invoked at most this many times in a behaviour.
MaxPlayers == 3
\* At most this many player promises are pending at once.
MaxPending == 2

-----------------------------------------------------------------------------
(* JavaScript values *)

Undef == "undefined"
Null == "null"
Absent == "absent"

\* obj.k: reading a key the object does not have yields undefined.
Get(v) == IF v = Absent THEN Undef ELSE v

\* Truthiness of a scalar: undefined, null, '' and 0 are falsy.
Truthy(v) == v \notin {Absent, Undef, Null, "", "0"}

\* opts.playerVars: kind says whether the key is missing ("absent"), holds
\* undefined ("undefined") or holds an object ("object").  controls stands
\* for every player variable other than autoplay, start and end.
NoVars(k) ==
  [kind |-> k, autoplay |-> Absent, start |-> Absent, end |-> Absent,
   controls |-> Absent]

Vars(a, s, e, c) ==
  [kind |-> "object", autoplay |-> a, start |-> s, end |-> e, controls |-> c]

\* {...pv} and (pv || {}): an absent or undefined playerVars spreads to {}.
ObjectOf(pv) == IF pv.kind = "object" THEN pv ELSE NoVars("object")

\* opts: host stands for every top-level option other than width, height
\* and playerVars.
Opts(w, h, o, pv) == [width |-> w, height |-> h, host |-> o, playerVars |-> pv]

\* The props of the callbacks.
CallbackProps ==
  {"onReady", "onError", "onPlay", "onPause", "onEnd", "onStateChange",
   "onPlaybackRateChange", "onPlaybackQualityChange"}

\* A configuration with the props the predicates read set as given and the
\* others (container class and style, loading hint, callbacks) left out.
Props(v, i, c, t, o) ==
  [videoId |-> v, id |-> i, className |-> c, title |-> t, opts |-> o,
   containerClassName |-> Undef, containerStyle |-> Undef, loading |-> Undef,
   onReady |-> Undef, onError |-> Undef, onPlay |-> Undef, onPause |-> Undef,
   onEnd |-> Undef, onStateChange |-> Undef, onPlaybackRateChange |-> Undef,
   onPlaybackQualityChange |-> Undef]

-----------------------------------------------------------------------------
(* The three predicates of componentDidUpdate *)

shouldUpdateVideo(prevP, p) ==
  IF prevP.videoId # p.videoId
    THEN TRUE
    ELSE LET prevVars == ObjectOf(prevP.opts.playerVars)
             pvars == ObjectOf(p.opts.playerVars)
         IN  \/ Get(prevVars.start) # Get(pvars.start)
             \/ Get(prevVars.end) # Get(pvars.end)

\* A variant that neutralizes playerVars without spreading the caller's.
filterResetOptionsNoSpread(opts) ==
  [opts EXCEPT !.height = "0",
               !.width = "0",
               !.playerVars = Vars("0", "0", "0", Absent)]

\* A variant that leaves autoplay as the caller set it.
filterResetOptionsKeepAutoplay(opts) ==
  [opts EXCEPT !.height = "0",
               !.width = "0",
               !.playerVars = [ObjectOf(opts.playerVars) EXCEPT
                                 !.start = "0", !.end = "0"]]

filterResetOptions(opts) ==
  [opts EXCEPT !.height = "0",
               !.width = "0",
               !.playerVars = [ObjectOf(opts.playerVars) EXCEPT
                                 !.autoplay = "0", !.start = "0", !.end = "0"]]

\* fast-deep-equal on the encoding above.
isEqual(a, b) == a = b

\* A variant that compares the options as they are, not neutralized.
shouldResetPlayerUnfiltered(prevP, p) ==
  \/ prevP.videoId # p.videoId
  \/ ~isEqual(prevP.opts, p.opts)

shouldResetPlayer(prevP, p) ==
  \/ prevP.videoId # p.videoId
  \/ ~isEqual(filterResetOptions(prevP.opts), filterResetOptions(p.opts))

shouldUpdatePlayer(prevP, p) ==
  \/ prevP.id # p.id
  \/ prevP.className # p.className
  \/ Get(prevP.opts.width) # Get(p.opts.width)
  \/ Get(prevP.opts.height) # Get(p.opts.height)
  \/ prevP.title # p.title

-----------------------------------------------------------------------------
(* Props *)

\* "{}" is the empty style object, "noop" the function () => {}.
defaultProps ==
  [videoId |-> "", id |-> "", className |-> "", loading |-> Undef,
   containerClassName |-> "", containerStyle |-> "{}",
   onReady |-> "noop", onError |-> "noop", onPlay |-> "noop",
   onPause |-> "noop", onEnd |-> "noop", onStateChange |-> "noop",
   onPlaybackRateChange |-> "noop", onPlaybackQualityChange |-> "noop",
   title |-> ""]

\* React resolves static defaultProps: a prop the caller leaves undefined
\* takes its default; null is kept.
WithDefaults(c) ==
  [k \in DOMAIN c |->
     IF k \in DOMAIN defaultProps /\ k # "opts" /\ c[k] = Undef
       THEN defaultProps[k]
       ELSE c[k]]

-----------------------------------------------------------------------------
(* The external player *)

PlayerState ==
  [UNSTARTED |-> -1, ENDED |-> 0, PLAYING |-> 1, PAUSED |-> 2,
   BUFFERING |-> 3, CUED |-> 5]

EventNames ==
  {"ready", "error", "stateChange", "playbackRateChange",
   "playbackQualityChange"}

NoPayload == [videoId |-> Absent, startSeconds |-> Absent, endSeconds |-> Absent]

NoAttrs ==
  [id |-> Absent, class |-> Absent, width |-> Absent, height |-> Absent,
   title |-> Absent]

\* One call on handle h.  live records whether destroy() had not yet been
\* called on h when this call was made.
Call(op, h, payload, ps) ==
  [op |-> op, h |-> h, payload |-> payload, live |-> ~ps[h].destroyed]

\* What the handlers of one lifecycle step work on: the handles, the pending
\* promises, the calls issued and the methods invoked so far, and whether
\* the step threw.
Local(ps, pend) ==
  [players |-> ps, pending |-> pend, calls |-> <<>>, rules |-> <<>>,
   threw |-> FALSE]

-----------------------------------------------------------------------------
(* Methods of the component *)

\* A variant that attaches four of the five handlers.
NewPlayerFourHandlers(p) ==
  [playerOpts |-> [opts |-> p.opts, videoId |-> p.videoId],
   destroyed |-> FALSE,
   subs |-> {"ready", "error", "stateChange", "playbackRateChange"},
   attrs |-> NoAttrs]

\* A variant that does not preload the video: videoId is left out of the
\* options passed to the factory.
NewPlayerNoPreload(p) ==
  [playerOpts |-> [opts |-> p.opts, videoId |-> Undef],
   destroyed |-> FALSE,
   subs |-> {"ready", "error", "stateChange", "playbackRateChange",
             "playbackQualityChange"},
   attrs |-> NoAttrs]

\* createPlayer, past the `typeof document` test: the factory is invoked
\* with {...opts, videoId} and the five handlers are attached.
NewPlayer(p) ==
  [playerOpts |-> [opts |-> p.opts, videoId |-> p.videoId],
   destroyed |-> FALSE,
   subs |-> {"ready", "error", "stateChange", "playbackRateChange",
             "playbackQualityChange"},
   attrs |-> NoAttrs]

\* resetPlayer = () => this.internalPlayer?.destroy().then(this.createPlayer)
resetPlayer(M, ip) ==
  IF ip = 0
    THEN M
    ELSE [M EXCEPT !.calls = Append(@, Call("destroy", ip, NoPayload, M.players)),
                   !.players[ip].destroyed = TRUE,
                   !.pending = Append(@, [then |-> "createPlayer", h |-> ip])]

\* updatePlayer = () => this.internalPlayer?.getIframe().then(...)
updatePlayer(M, ip) ==
  IF ip = 0
    THEN M
    ELSE [M EXCEPT !.calls = Append(@, Call("getIframe", ip, NoPayload, M.players)),
                   !.pending = Append(@, [then |-> "setAttributes", h |-> ip])]

\* The continuation of getIframe(): the attributes the iframe is left with.
setAttributes(p) ==
  [id |-> IF Truthy(p.id) THEN p.id ELSE Absent,
   class |-> IF Truthy(p.className) THEN p.className ELSE Absent,
   width |-> IF Truthy(p.opts.width) THEN p.opts.width ELSE Absent,
   height |-> IF Truthy(p.opts.height) THEN p.opts.height ELSE Absent,
   title |-> IF p.title \notin {Undef, Null} THEN p.title
             ELSE "YouTube video player"]

\* The payload updateVideo builds when playerVars is an object or missing.
videoOpts(p) ==
  LET pv == p.opts.playerVars
      inOpts == pv.kind # "absent"      \* 'playerVars' in this.props.opts
  IN  [videoId |-> p.videoId,
       startSeconds |-> IF inOpts THEN pv.start ELSE Absent,
       endSeconds |-> IF inOpts THEN pv.end ELSE Absent]

updateVideo(M, ip, p) ==
  IF p.videoId = Undef \/ p.videoId = Null
    THEN IF ip = 0
           THEN M
           ELSE [M EXCEPT !.calls = Append(@, Call("stopVideo", ip, NoPayload, M.players))]
    ELSE IF p.opts.playerVars.kind = "undefined"
      \* 'playerVars' in opts holds and opts.playerVars.autoplay reads a
      \* property of undefined: TypeError
      THEN [M EXCEPT !.threw = TRUE]
      ELSE LET autoplay == /\ p.opts.playerVars.kind = "object"
                           /\ p.opts.playerVars.autoplay = "1"
               op == IF autoplay THEN "loadVideoById" ELSE "cueVideoById"
           IN  IF ip = 0
                 THEN M
                 ELSE [M EXCEPT !.calls = Append(@, Call(op, ip, videoOpts(p), M.players))]

\* M once the method called name has been invoked.
Invoked(M, name) == [M EXCEPT !.rules = Append(@, name)]

\* A variant that tests the three predicates as an if / else-if chain.
didUpdateElseIf(M, ip, prevP, p) ==
  IF shouldUpdatePlayer(prevP, p)
    THEN updatePlayer(Invoked(M, "updatePlayer"), ip)
    ELSE IF shouldResetPlayer(prevP, p)
      THEN resetPlayer(Invoked(M, "resetPlayer"), ip)
      ELSE IF shouldUpdateVideo(prevP, p)
        THEN updateVideo(Invoked(M, "updateVideo"), ip, p)
        ELSE M

\* The body of componentDidUpdate on the new props p, with prevProps prevP.
didUpdate(M, ip, prevP, p) ==
  LET M1 == IF shouldUpdatePlayer(prevP, p)
              THEN updatePlayer(Invoked(M, "updatePlayer"), ip)
              ELSE M
      M2 == IF shouldResetPlayer(prevP, p)
              THEN resetPlayer(Invoked(M1, "resetPlayer"), ip)
              ELSE M1
  IN  IF shouldUpdateVideo(prevP, p)
        THEN updateVideo(Invoked(M2, "updateVideo"), ip, p)
        ELSE M2

\* A variant whose switch cases fall through (no break).
onPlayerStateChangeFallThrough(d) ==
  <<"onStateChange">> \o
    (CASE d = PlayerState.ENDED -> <<"onEnd", "onPlay", "onPause">>
       [] d = PlayerState.PLAYING -> <<"onPlay", "onPause">>
       [] d = PlayerState.PAUSED -> <<"onPause">>
       [] OTHER -> <<>>)

\* The callbacks onPlayerStateChange invokes for event.data = d.
onPlayerStateChange(d) ==
  <<"onStateChange">> \o
    (CASE d = PlayerState.ENDED -> <<"onEnd">>
       [] d = PlayerState.PLAYING -> <<"onPlay">>
       [] d = PlayerState.PAUSED -> <<"onPause">>
       [] OTHER -> <<>>)

\* A variant whose playbackRateChange and playbackQualityChange handlers
\* are attached the other way round.
relaySwapped(e, d) ==
  CASE e = "ready" -> <<"onReady">>
    [] e = "error" -> <<"onError">>
    [] e = "stateChange" -> onPlayerStateChange(d)
    [] e = "playbackRateChange" -> <<"onPlaybackQualityChange">>
    [] e = "playbackQualityChange" -> <<"onPlaybackRateChange">>

\* The callbacks the handler attached for event e invokes.
relay(e, d) ==
  CASE e = "ready" -> <<"onReady">>
    [] e = "error" -> <<"onError">>
    [] e = "stateChange" -> onPlayerStateChange(d)
    [] e = "playbackRateChange" -> <<"onPlaybackRateChange">>
    [] e = "playbackQualityChange" -> <<"onPlaybackQualityChange">>

\* A variant that invokes the function the prop held before the last
\* update.
invokeCaptured(name) ==
  IF prevProps = <<>> THEN props[name] ELSE prevProps[1][name]

\* this.props.onX?.(event): the function the prop holds when the event
\* arrives.
invoke(name) == props[name]

NoEvent == [name |-> "none", data |-> 0, h |-> 0]

-----------------------------------------------------------------------------
(* Lifecycle steps *)

NoOutput ==
  /\ calls' = <<>>
  /\ rules' = <<>>
  /\ lastEvent' = NoEvent
  /\ callbacks' = <<>>
  /\ handlers' = <<>>

\* The state a new instance is in: constructor, props = c with defaults.
Constructed(c) ==
  /\ phase = "constructed"
  /\ container = FALSE
  /\ supplied = c
  /\ props = WithDefaults(c)
  /\ prevProps = <<>>
  /\ internalPlayer = 0
  /\ players = <<>>
  /\ pending = <<>>
  /\ calls = <<>>
  /\ rules = <<>>
  /\ factory = <<>>
  /\ lastEvent = NoEvent
  /\ callbacks = <<>>
  /\ handlers = <<>>

\* createPlayer as a step; hasContainer says whether this.container holds
\* an element.  With null (the ref was cleared on unmount) the factory is
\* called with null: whether it throws or returns a handle is the
\* library's choice.  factory records the invocation: mount is TRUE when
\* the element was passed and FALSE when null was.
createPlayer(hasContainer) ==
  IF ~hasDocument
    THEN /\ factory' = <<>>
         /\ UNCHANGED <<internalPlayer, players>>
    ELSE /\ factory' = <<[mount |-> hasContainer,
                          playerOpts |-> NewPlayer(props).playerOpts]>>
         /\ \/ /\ players' = Append(players, NewPlayer(props))
               /\ internalPlayer' = Len(players) + 1
            \/ /\ ~hasContainer
               /\ UNCHANGED <<internalPlayer, players>>

\* render attaches the ref, then componentDidMount runs createPlayer.
componentDidMount ==
  /\ phase = "constructed"
  /\ phase' = "mounted"
  /\ container' = TRUE
  /\ createPlayer(TRUE)
  /\ NoOutput
  /\ UNCHANGED <<hasDocument, supplied, props, prevProps, pending>>

\* A re-render with the caller's configuration c, then componentDidUpdate.
componentDidUpdate(c) ==
  LET p == WithDefaults(c)
      M == didUpdate(Local(players, pending), internalPlayer, props, p)
  IN  /\ phase = "mounted"
      /\ Len(M.pending) <= MaxPending
      /\ supplied' = c
      /\ props' = p
      /\ prevProps' = <<props>>
      /\ players' = M.players
      /\ pending' = M.pending
      /\ calls' = M.calls
      /\ rules' = M.rules
      /\ phase' = IF M.threw THEN "failed" ELSE "mounted"
      /\ lastEvent' = NoEvent
      /\ callbacks' = <<>>
      /\ handlers' = <<>>
      /\ factory' = <<>>
      /\ UNCHANGED <<hasDocument, container, internalPlayer>>

\* componentWillUnmount, then React clears the ref.  A component whose
\* lifecycle method threw is unmounted by React as well.
componentWillUnmount ==
  /\ phase \in {"mounted", "failed"}
  /\ phase' = "unmounted"
  /\ container' = FALSE
  /\ IF internalPlayer = 0
       THEN /\ calls' = <<>>
            /\ UNCHANGED players
       ELSE /\ calls' = <<Call("destroy", internalPlayer, NoPayload, players)>>
            /\ players' = [players EXCEPT ![internalPlayer].destroyed = TRUE]
  /\ rules' = <<>>
  /\ lastEvent' = NoEvent
  /\ callbacks' = <<>>
  /\ handlers' = <<>>
  /\ factory' = <<>>
  /\ UNCHANGED <<hasDocument, supplied, props, prevProps, internalPlayer, pending>>

\* getInternalPlayer = () => this.internalPlayer
getInternalPlayer == internalPlayer

\* pending without its i-th promise.
Without(s, i) == SubSeq(s, 1, i - 1) \o SubSeq(s, i + 1, Len(s))

\* The promises of one handle settle in the order they were made.
FirstOfHandle(i) == \A j \in 1..(i - 1) : pending[j].h # pending[i].h

\* A destroy() promise resolves and its continuation, createPlayer, runs.
DestroyResolved(i) ==
  /\ i \in 1..Len(pending)
  /\ pending[i].then = "createPlayer"
  /\ FirstOfHandle(i)
  /\ Len(players) < MaxPlayers
  /\ pending' = Without(pending, i)
  /\ createPlayer(container)
  /\ NoOutput
  /\ UNCHANGED <<phase, hasDocument, container, supplied, props, prevProps>>

\* A getIframe() promise resolves and its continuation sets the attributes.
IframeResolved(i) ==
  /\ i \in 1..Len(pending)
  /\ pending[i].then = "setAttributes"
  /\ FirstOfHandle(i)
  /\ pending' = Without(pending, i)
  /\ players' = [players EXCEPT ![pending[i].h].attrs = setAttributes(props)]
  /\ NoOutput
  /\ factory' = <<>>
  /\ UNCHANGED <<phase, hasDocument, container, supplied, props, prevProps, internalPlayer>>

\* Handle h emits event e with event.data = d; the attached handler runs.
PlayerEvent(h, e, d) ==
  /\ h \in 1..Len(players)
  /\ e \in players[h].subs
  /\ lastEvent' = [name |-> e, data |-> d, h |-> h]
  /\ callbacks' = relay(e, d)
  /\ handlers' = [i \in 1..Len(relay(e, d)) |-> invoke(relay(e, d)[i])]
  /\ calls' = <<>>
  /\ rules' = <<>>
  /\ factory' = <<>>
  /\ UNCHANGED <<phase, hasDocument, container, supplied, props, prevProps,
                 internalPlayer, players, pending>>

-----------------------------------------------------------------------------
(* Configurations the caller supplies *)

\* A configuration with one video and nothing else set.
BaseConfig ==
  Props("a", Undef, Undef, Undef, Opts(Absent, Absent, Absent, NoVars("absent")))

\* The lifecycle is explored over these: the base, another video (reset and
\* video update), a width (appearance update), a start time (video update).
LifeConfigs ==
  {BaseConfig,
   [BaseConfig EXCEPT !.videoId = "b"],
   [BaseConfig EXCEPT !.opts.width = "640"],
   [BaseConfig EXCEPT !.opts.playerVars = Vars(Absent, "5", Absent, Absent)]}

\* The event relay is explored over these.
EventConfigs ==
  {BaseConfig,
   [BaseConfig EXCEPT !.videoId = "b"],
   [BaseConfig EXCEPT !.onStateChange = "f"],
   [BaseConfig EXCEPT !.onStateChange = "g"]}

\* Resets in flight are explored over these: the base, another video, a
\* host and a controls setting (each a reset), a start time (no reset).
ResetConfigs ==
  {BaseConfig,
   [BaseConfig EXCEPT !.videoId = "b"],
   [BaseConfig EXCEPT !.opts.host = "www.youtube-nocookie.com"],
   [BaseConfig EXCEPT !.opts.playerVars = Vars(Absent, Absent, Absent, "0")],
   [BaseConfig EXCEPT !.opts.playerVars = Vars(Absent, "5", Absent, Absent)]}

\* Every value of opts.playerVars the predicates and updateVideo tell apart.
AllVars ==
  {NoVars("absent"), NoVars("undefined")} \cup
  {Vars(a, s, e, c) : a \in {Absent, "0", "1"}, s \in {Absent, "5"},
                      e \in {Absent, "9"}, c \in {Absent, "0"}}

\* Configurations that vary the video, the options and the player variables.
OptionConfigs ==
  {Props(v, Undef, Undef, Undef, Opts(w, Absent, o, pv)) :
     v \in {Undef, Null, "a", "b"}, w \in {Absent, "640"},
     o \in {Absent, "www.youtube-nocookie.com"}, pv \in AllVars}

\* Configurations that vary everything the appearance update looks at.
AppearanceConfigs ==
  {Props(v, i, c, t, Opts(w, h, Absent, pv)) :
     v \in {"a", "b"}, i \in {Undef, "player"}, c \in {Undef, "video"},
     t \in {Undef, "clip"}, w \in {Absent, "640"}, h \in {Absent, "360"},
     pv \in {NoVars("absent"), Vars(Absent, "5", Absent, Absent)}}

\* Configurations that vary the five attributes updatePlayer writes, with
\* the values its tests tell apart: not set, empty (0) and set, and for the
\* title also a value that is not a string.
AttributeConfigs ==
  {Props(v, i, c, t, Opts(w, h, Absent, NoVars("absent"))) :
     v \in {"a", "b"}, i \in {Undef, "player"}, c \in {Undef, "video"},
     t \in {Undef, Null, "clip"}, w \in {Absent, "0", "640"},
     h \in {Absent, "360"}}

\* Configurations that vary what no predicate reads (a callback, the
\* container's class and style, the loading hint), autoplay, and for
\* contrast the video and the width.
QuietConfigs ==
  {[Props(v, Undef, Undef, Undef, Opts(w, Absent, Absent, pv)) EXCEPT
      !.onReady = r, !.containerClassName = cc, !.containerStyle = cs,
      !.loading = l] :
     v \in {"a", "b"}, w \in {Absent, "640"},
     pv \in {NoVars("absent"), NoVars("undefined"),
             Vars("0", Absent, Absent, Absent), Vars("1", Absent, Absent, Absent)},
     r \in {Undef, "f"}, cc \in {Undef, "box"},
     cs \in {Undef, "{width: 100%}"}, l \in {Undef, "lazy"}}

DiffConfigs == OptionConfigs \cup AppearanceConfigs

\* event.data of a stateChange event.
StateCodes == -1..6

-----------------------------------------------------------------------------
(* Specifications *)

\* The whole lifecycle of one instance.
Init ==
  /\ hasDocument \in BOOLEAN
  /\ \E c \in LifeConfigs : Constructed(c)

Next ==
  \/ componentDidMount
  \/ \E c \in LifeConfigs : componentDidUpdate(c)
  \/ componentWillUnmount
  \/ \E i \in 1..MaxPending : DestroyResolved(i)
  \/ \E i \in 1..MaxPending : IframeResolved(i)

Spec == Init /\ [][Next]_vars

\* The events of the handles of a mounted instance, between updates.
InitEvents ==
  /\ hasDocument \in BOOLEAN
  /\ \E c \in EventConfigs : Constructed(c)

NextEvents ==
  \/ componentDidMount
  \/ \E c \in EventConfigs : componentDidUpdate(c)
  \/ \E i \in 1..MaxPending : DestroyResolved(i)
  \/ \E h \in 1..MaxPlayers, e \in EventNames :
       \E d \in (IF e = "stateChange" THEN StateCodes ELSE {0}) : PlayerEvent(h, e, d)

SpecEvents == InitEvents /\ [][NextEvents]_vars

\* One mount in a browser and one update, over every pair of DiffConfigs.
InitDiff ==
  /\ hasDocument = TRUE
  /\ \E c \in DiffConfigs : Constructed(c)

NextDiff ==
  \/ componentDidMount
  \/ /\ prevProps = <<>>
     /\ \E c \in DiffConfigs : componentDidUpdate(c)

SpecDiff == InitDiff /\ [][NextDiff]_vars

\* One mount without a document, one update over every pair of DiffConfigs,
\* and the unmount.
InitNoDocument ==
  /\ hasDocument = FALSE
  /\ \E c \in DiffConfigs : Constructed(c)

NextNoDocument ==
  \/ componentDidMount
  \/ /\ prevProps = <<>>
     /\ \E c \in DiffConfigs : componentDidUpdate(c)
  \/ componentWillUnmount

SpecNoDocument == InitNoDocument /\ [][NextNoDocument]_vars

\* One mount in a browser, one update over every pair of AttributeConfigs,
\* and the resolution of its getIframe().
InitAppearance ==
  /\ hasDocument = TRUE
  /\ \E c \in AttributeConfigs : Constructed(c)

NextAppearance ==
  \/ componentDidMount
  \/ /\ prevProps = <<>>
     /\ \E c \in AttributeConfigs : componentDidUpdate(c)
  \/ \E i \in 1..MaxPending : IframeResolved(i)

SpecAppearance == InitAppearance /\ [][NextAppearance]_vars

\* A mounted instance in a browser, its updates and the resolution of the
\* destroy() promises of its resets, in any interleaving.
InitReset ==
  /\ hasDocument = TRUE
  /\ \E c \in ResetConfigs : Constructed(c)

NextReset ==
  \/ componentDidMount
  \/ \E c \in ResetConfigs : componentDidUpdate(c)
  \/ \E i \in 1..MaxPending : DestroyResolved(i)

SpecReset == InitReset /\ [][NextReset]_vars

\* One mount in a browser and one update, over every pair of QuietConfigs.
InitQuiet ==
  /\ hasDocument = TRUE
  /\ \E c \in QuietConfigs : Constructed(c)

NextQuiet ==
  \/ componentDidMount
  \/ /\ prevProps = <<>>
     /\ \E c \in QuietConfigs : componentDidUpdate(c)

SpecQuiet == InitQuiet /\ [][NextQuiet]_vars

-----------------------------------------------------------------------------
(* Vocabulary of the claims *)

\* The handles on which destroy() has not been called.
LiveHandles == {h \in 1..Len(players) : ~players[h].destroyed}

\* The operations of the calls the last handler issued.
Ops == {calls[i].op : i \in 1..Len(calls)}

VideoCommands == {"stopVideo", "loadVideoById", "cueVideoById"}

\* What a configuration says, option by option: the value each option reads
\* as (undefined when it is not set).
View(p) ==
  [videoId |-> p.videoId,
   id |-> p.id,
   className |-> p.className,
   title |-> p.title,
   width |-> Get(p.opts.width),
   height |-> Get(p.opts.height),
   host |-> Get(p.opts.host),
   autoplay |-> Get(ObjectOf(p.opts.playerVars).autoplay),
   start |-> Get(ObjectOf(p.opts.playerVars).start),
   end |-> Get(ObjectOf(p.opts.playerVars).end),
   controls |-> Get(ObjectOf(p.opts.playerVars).controls),
   containerClassName |-> p.containerClassName,
   containerStyle |-> p.containerStyle,
   loading |-> p.loading,
   onReady |-> p.onReady,
   onError |-> p.onError,
   onPlay |-> p.onPlay,
   onPause |-> p.onPause,
   onEnd |-> p.onEnd,
   onStateChange |-> p.onStateChange,
   onPlaybackRateChange |-> p.onPlaybackRateChange,
   onPlaybackQualityChange |-> p.onPlaybackQualityChange]

\* The options in which two configurations differ.
Differing(a, b) == {f \in DOMAIN View(a) : View(a)[f] # View(b)[f]}

\* The calls of the last handler whose operation is in ops, in order.
CallsIn(ops) ==
  LET keep(c) == c.op \in ops IN SelectSeq(calls, keep)

\* A destroy().then(createPlayer) is pending on handle h.
RecreatePending(h) ==
  \E i \in 1..Len(pending) : pending[i] = [then |-> "createPlayer", h |-> h]

\* Under SpecDiff: the state is the one the single componentDidUpdate left,
\* with prevProps[1] the previous and props the next configuration, and
\* handle 1 the handle the mount created.
AfterUpdate == prevProps # <<>>

-----------------------------------------------------------------------------
(* Claims *)

\* C1: in every reachable state at most one handle is live, that is created
\* and without destroy() called on it, also when a second reset-triggering
\* update arrives before the first reset's destroy() has resolved.
C1_AtMostOneLiveHandle == Cardinality(LiveHandles) <= 1

\* C2: every call other than destroy() is made on a handle on which
\* destroy() has not been called yet, also the video-update command of an
\* update in which a reset fired.  (A handle has an index only once the
\* factory returned it, so no call precedes its creation.)
C2_CallsWithinLifetime ==
  \A i \in 1..Len(calls) : calls[i].op # "destroy" => calls[i].live

\* C10: every handle the adapter has created, on mount or as the recreate
\* step of a reset, carries the five subscriptions ready, error, stateChange,
\* playbackRateChange and playbackQualityChange in every state in which it
\* exists; the handle held in internalPlayer never lacks one.
C10_FiveSubscriptions ==
  /\ \A h \in 1..Len(players) :
       players[h].subs = {"ready", "error", "stateChange",
                          "playbackRateChange", "playbackQualityChange"}
  /\ internalPlayer \in 0..Len(players)

\* C10 witness: a reset has recreated the handle, and the adapter holds the
\* second handle while the first is destroyed.
C10_Witness ==
  /\ Len(players) >= 2
  /\ internalPlayer = 2
  /\ players[1].destroyed
  /\ phase = "mounted"

\* C3: when the video identifiers of the previous and the next configuration
\* differ, both shouldResetPlayer and shouldUpdateVideo are true, and the one
\* update calls destroy() on the held handle, leaves its recreation pending,
\* and issues a video command (stop, load or cue), whatever the other
\* options are.
C3_VideoIdResetsAndUpdates ==
  (AfterUpdate /\ prevProps[1].videoId # props.videoId) =>
    /\ shouldResetPlayer(prevProps[1], props)
    /\ shouldUpdateVideo(prevProps[1], props)
    /\ internalPlayer # 0 =>
         /\ "destroy" \in Ops
         /\ RecreatePending(internalPlayer)
         /\ Ops \cap VideoCommands # {}

\* C4: when the two configurations differ in an option other than width,
\* height, autoplay, start and end (host for the top-level options, controls
\* for the player variables, set on one side only or to another value),
\* shouldResetPlayer is true and the reset fires: destroy() is called on the
\* held handle and its recreation is pending.
C4_OtherOptionResets ==
  (AfterUpdate /\ Differing(prevProps[1], props) \cap {"host", "controls"} # {}) =>
    /\ shouldResetPlayer(prevProps[1], props)
    /\ internalPlayer # 0 =>
         /\ Len(CallsIn({"destroy"})) = 1
         /\ players[internalPlayer].destroyed
         /\ RecreatePending(internalPlayer)

\* C4 witness: only a player variable other than autoplay, start and end
\* differs (here set on one side only), and the update called destroy().
C4_Witness ==
  /\ AfterUpdate
  /\ Differing(prevProps[1], props) = {"controls"}
  /\ prevProps[1].opts.playerVars.kind = "absent"
  /\ Ops = {"destroy"}
  /\ RecreatePending(1)

\* C5: when the two configurations differ only in the start and/or end
\* player variables, shouldResetPlayer is false (no destroy, no create) and
\* shouldUpdateVideo is true (a stop, load or cue command is issued).
C5_TrimUpdatesVideoOnly ==
  (/\ AfterUpdate
   /\ Differing(prevProps[1], props) # {}
   /\ Differing(prevProps[1], props) \subseteq {"start", "end"}) =>
    /\ ~shouldResetPlayer(prevProps[1], props)
    /\ shouldUpdateVideo(prevProps[1], props)
    /\ internalPlayer # 0 =>
         /\ "destroy" \notin Ops
         /\ Len(players) = 1
         /\ ~players[1].destroyed
         /\ ~RecreatePending(internalPlayer)
         /\ Len(CallsIn(VideoCommands)) = 1

C7_LoadOrCue ==
  (/\ AfterUpdate
   /\ shouldUpdateVideo(prevProps[1], props)
   /\ props.videoId \notin {Undef, Null}
   /\ internalPlayer # 0) =>
    /\ Len(CallsIn(VideoCommands)) = 1
    /\ LET c == CallsIn(VideoCommands)[1]
       IN  /\ c.h = internalPlayer
           /\ c.op = IF View(props).autoplay = "1" THEN "loadVideoById"
                     ELSE "cueVideoById"
           /\ c.payload =
                [videoId |-> props.videoId,
                 startSeconds |-> ObjectOf(props.opts.playerVars).start,
                 endSeconds |-> ObjectOf(props.opts.playerVars).end]

\* C8: when the caller supplies a configuration whose video identifier is
\* undefined, the adapter issues stopVideo and neither loadVideoById nor
\* cueVideoById.  Stated for the updates in which the video update fires
\* and which run to their end.
C8_UndefinedIdStops ==
  (/\ AfterUpdate
   /\ phase = "mounted"
   /\ supplied.videoId = Undef
   /\ shouldUpdateVideo(prevProps[1], props)
   /\ internalPlayer # 0) =>
    /\ "stopVideo" \in Ops
    /\ "loadVideoById" \notin Ops
    /\ "cueVideoById" \notin Ops

\* C9: the derived callbacks a stateChange event fires depend on its code
\* alone: 0 fires exactly onEnd, 1 exactly onPlay, 2 exactly onPause, and
\* every other code (-1, 3, 5 among them) fires none.
C9_DerivedCallbacks ==
  lastEvent.name = "stateChange" =>
    LET derived(n) == n \in {"onEnd", "onPlay", "onPause"}
    IN  SelectSeq(callbacks, derived) =
          (CASE lastEvent.data = 0 -> <<"onEnd">>
             [] lastEvent.data = 1 -> <<"onPlay">>
             [] lastEvent.data = 2 -> <<"onPause">>
             [] OTHER -> <<>>)

\* C9 witness: a handle recreated by a reset emitted stateChange with code 0
\* and the handler invoked onStateChange and onEnd.
C9_Witness ==
  /\ lastEvent = [name |-> "stateChange", data |-> 0, h |-> 2]
  /\ callbacks = <<"onStateChange", "onEnd">>

\* C11: when there is no document at creation time, the mount creates no
\* handle and raises no failure and internalPlayer stays empty; from then on
\* every update (appearance, reset, video update) and the unmount issue no
\* call to the external player, invoke the factory never, leave nothing
\* pending and raise no failure.
C11_NoDocumentNoCalls ==
  ~hasDocument =>
    /\ internalPlayer = 0
    /\ players = <<>>
    /\ factory = <<>>
    /\ calls = <<>>
    /\ pending = <<>>
    /\ phase # "failed"

\* C12: the unmount of an adapter that holds a handle issues exactly one
\* call, destroy() on the held handle, waits for nothing (the adapter is
\* unmounted in the same step and no promise is added to the pending ones),
\* and discards the handle: after the step internalPlayer and
\* getInternalPlayer() no longer yield that handle.
C12_UnmountDiscardsHandle ==
  [][(/\ phase # "unmounted"
      /\ phase' = "unmounted"
      /\ internalPlayer # 0) =>
       (/\ Len(calls') = 1
        /\ calls'[1].op = "destroy"
        /\ calls'[1].h = internalPlayer
        /\ pending' = pending
        /\ internalPlayer' # internalPlayer
        /\ getInternalPlayer' # internalPlayer)]_vars

\* C13: within one update the three predicates are evaluated on the same
\* pair of previous and next configuration, and the methods they guard are
\* invoked in the fixed order updatePlayer, resetPlayer, updateVideo; none
\* suppresses another, so the methods invoked are exactly those whose
\* predicate is true, and the calls of the update appear in the order
\* getIframe, destroy, then stopVideo / loadVideoById / cueVideoById.
C13_FixedOrderNoSuppression ==
  AfterUpdate =>
    LET prev == prevProps[1]
        fired(r) == CASE r = "updatePlayer" -> shouldUpdatePlayer(prev, props)
                      [] r = "resetPlayer" -> shouldResetPlayer(prev, props)
                      [] r = "updateVideo" -> shouldUpdateVideo(prev, props)
        rank(op) == CASE op = "getIframe" -> 1
                      [] op = "destroy" -> 2
                      [] op \in VideoCommands -> 3
    IN  /\ rules = SelectSeq(<<"updatePlayer", "resetPlayer", "updateVideo">>, fired)
        /\ \A i, j \in 1..Len(calls) : i < j => rank(calls[i].op) < rank(calls[j].op)
        /\ ("getIframe" \in Ops) = fired("updatePlayer")
        /\ ("destroy" \in Ops) = fired("resetPlayer")
        /\ (Ops \cap VideoCommands # {}) => fired("updateVideo")

\* C13 witness: one update fired all three rules and issued getIframe,
\* destroy and a video command, in that order.
C13_Witness ==
  /\ AfterUpdate
  /\ rules = <<"updatePlayer", "resetPlayer", "updateVideo">>
  /\ Len(calls) = 3
  /\ calls[1].op = "getIframe"
  /\ calls[2].op = "destroy"
  /\ calls[3].op \in VideoCommands

\* C14: a reset takes two steps.  The update in which resetPlayer runs on a
\* held handle calls destroy() on that handle at once, leaves the recreation
\* pending and invokes the factory not.  The factory is invoked, apart from
\* the mount, only by the step in which a pending destroy() of a destroyed
\* handle resolves; it is then passed the same mount point (the container
\* element) and the full options plus the video identifier of the
\* configuration current at that moment.
C14_ResetTwoSteps ==
  [][/\ (/\ \E i \in 1..Len(rules') : rules'[i] = "resetPlayer"
         /\ internalPlayer # 0) =>
          /\ \E i \in 1..Len(calls') :
               calls'[i].op = "destroy" /\ calls'[i].h = internalPlayer
          /\ \E i \in 1..Len(pending') :
               pending'[i] = [then |-> "createPlayer", h |-> internalPlayer]
          /\ factory' = <<>>
          /\ Len(players') = Len(players)
          /\ internalPlayer' = internalPlayer
     /\ (factory' # <<>> /\ phase # "constructed") =>
          /\ \E i \in 1..Len(pending) :
               /\ pending[i].then = "createPlayer"
               /\ players[pending[i].h].destroyed
               /\ pending' = Without(pending, i)
          /\ factory'[1].mount = TRUE
          /\ factory'[1].playerOpts =
               [opts |-> props'.opts, videoId |-> props'.videoId]]_vars

\* C15: every handle the adapter creates is destroyed on unmount or reset:
\* once the adapter is unmounted and every pending promise has resolved,
\* destroy() has been called on every handle created.  Stated for the
\* executions in which the held handle is a destroyed one, that is, in which
\* no handle was created after the unmount.
C15_EveryHandleDestroyed ==
  (/\ phase = "unmounted"
   /\ pending = <<>>
   /\ internalPlayer # 0
   /\ players[internalPlayer].destroyed) =>
    \A h \in 1..Len(players) : players[h].destroyed

\* C16: an appearance update changes no attribute of the iframe until its
\* getIframe() resolves; once it has resolved, id, class, width and height
\* are each set to the value the caller configured when that value is
\* non-empty and removed otherwise, and title is set to the configured
\* title when that is a string and to "YouTube video player" when it is
\* not.
C16_AttributesMatch ==
  (/\ AfterUpdate
   /\ internalPlayer # 0
   /\ shouldUpdatePlayer(prevProps[1], props)) =>
    LET waiting == \E i \in 1..Len(pending) :
                     pending[i] = [then |-> "setAttributes", h |-> 1]
        nonEmpty(v) == v \notin {Undef, Null, Absent, "", "0"}
        isString(v) == v \notin {Undef, Null}
        attr(v) == IF nonEmpty(v) THEN v ELSE Absent
    IN  IF waiting
          THEN players[1].attrs = NoAttrs
          ELSE players[1].attrs =
                 [id |-> attr(supplied.id),
                  class |-> attr(supplied.className),
                  width |-> attr(supplied.opts.width),
                  height |-> attr(supplied.opts.height),
                  title |-> IF isString(supplied.title) THEN supplied.title
                            ELSE "YouTube video player"]

C18_EventuallyConsistent ==
  (/\ phase = "mounted"
   /\ \A i \in 1..Len(pending) : pending[i].then # "createPlayer") =>
    /\ getInternalPlayer # 0
    /\ getInternalPlayer = Len(players)
    /\ LET created == players[getInternalPlayer].playerOpts
           relevant(o) == [host |-> Get(o.host),
                           controls |-> Get(ObjectOf(o.playerVars).controls)]
       IN  /\ created.videoId = props.videoId
           /\ relevant(created.opts) = relevant(props.opts)

\* C18 witness: two resets were in flight at once and both have resolved;
\* the adapter holds the third handle and the second was never destroyed.
C18_Witness ==
  /\ phase = "mounted"
  /\ pending = <<>>
  /\ getInternalPlayer = 3
  /\ ~players[2].destroyed
  /\ props.opts.host = "www.youtube-nocookie.com"

C20_CurrentCallback ==
  lastEvent # NoEvent =>
    /\ Len(handlers) = Len(callbacks)
    /\ \A i \in 1..Len(callbacks) : handlers[i] = props[callbacks[i]]

\* C20 witness: an update replaced onStateChange f by g without a reset;
\* then the handle the mount created emitted stateChange and g was invoked.
C20_Witness ==
  /\ prevProps # <<>>
  /\ prevProps[1].onStateChange = "f"
  /\ props.onStateChange = "g"
  /\ Len(players) = 1
  /\ ~players[1].destroyed
  /\ lastEvent = [name |-> "stateChange", data |-> 2, h |-> 1]
  /\ handlers = <<"g", "noop">>

====
